---- MODULE Spec2Model ----
(***************************************************************************)
(* Model of replicator/runner.go: the Runner's ticker loop (Start, Stop),  *)
(* the cluster-scaling pass it launches as a goroutine on each tick        *)
(* (clusterScaling, disableClusterScaling) and the job-scaling pass that   *)
(* follows it on the main loop (jobScaling).                               *)
(*                                                                         *)
(* Time is counted in ticker periods: the clock advancing by one is one    *)
(* period of the ticker, which leaves a tick in the ticker's channel       *)
(* (capacity one).  CoolDown is counted in the same unit.  A               *)
(* LastScalingEvent of 0 is the zero time.Time; the clock starts at 1.     *)
(***************************************************************************)
EXTENDS Integers, Sequences, FiniteSets

\* ---- bounds of the model ----
MaxTime == 4
MaxRetryThreshold == 2
MaxCoolDown == 2
MaxJobs == 2
MaxGroups == 2

VARIABLES
    mpc,                \* position of Start's loop
    cpc,                \* position of the clusterScaling goroutine of this tick
    lingering,          \* goroutines past the send of line 239, before line 240
    doneChan,           \* "open" or "closed"
    stoppedMidTick,     \* Stop was called while a tick was being served
    tickerC,            \* TRUE: a tick is waiting in ticker.C
    now,                \* the clock
    RetryThreshold,     \* config.ClusterScaling.RetryThreshold
    CoolDown,           \* config.ClusterScaling.CoolDown
    ClusterScalingEnabled,  \* config.ClusterScaling.Enabled
    JobScalingEnabled,  \* config.JobScaling.Enabled
    Region,             \* config.Region
    NodeFailureCount,   \* scalingState.NodeFailureCount
    LastScalingEvent,   \* scalingState.LastScalingEvent
    scalingEnabled,     \* clusterScaling's local copy of the flag
    haveLeadership,     \* clusterScaling's local: result of LeaderCheck
    evaluation,         \* clusterScaling's locals scale, err: what EvaluateClusterCapacity returned
    ScalingDirection,   \* clusterCapacity.ScalingDirection
    newestNode,         \* clusterScaling's local: the instance under verification
    attempts,           \* instances identified so far in this pass
    nodeID,             \* clusterScaling's local: id from LeastAllocatedNode
    nodeIP,             \* clusterScaling's local: address from LeastAllocatedNode
    calls,              \* collaborator calls of the running cluster pass, in order
    scale_out_failed,   \* cluster.scale_out_failed emissions of the running pass
    jobLeadership,      \* jobScaling's local: result of LeaderCheck
    jobCount,           \* jobScaling's local: len(resp)
    jobIndex,           \* jobScaling's local: position of the range loop in resp
    job,                \* jobScaling's local: the job of the last iteration
    jobCalls            \* JobScale submissions of this job pass, in order

vars == <<mpc, cpc, lingering, doneChan, stoppedMidTick, tickerC, now, RetryThreshold, CoolDown,
          ClusterScalingEnabled, JobScalingEnabled, Region, NodeFailureCount,
          LastScalingEvent, scalingEnabled, haveLeadership, evaluation, ScalingDirection,
          newestNode, attempts, nodeID, nodeIP, calls, scale_out_failed, jobLeadership, jobCount,
          jobIndex, job, jobCalls>>

config == <<RetryThreshold, CoolDown, JobScalingEnabled>>
scalingState == <<NodeFailureCount, LastScalingEvent>>
locals == <<scalingEnabled, haveLeadership, evaluation, ScalingDirection, newestNode, attempts,
            nodeID, nodeIP>>
jobVars == <<jobLeadership, jobCount, jobIndex, job, jobCalls>>
runnerRest == <<doneChan, stoppedMidTick, tickerC, now>>
runnerVars == <<mpc, runnerRest>>

\* ---- values ----
ScalingDirectionOut == "Out"
ScalingDirectionIn == "In"
ScalingDirectionNone == "None"
Directions == {ScalingDirectionOut, ScalingDirectionIn, ScalingDirectionNone}

\* The collaborator calls that change the cluster or a job.
ClusterMutations == {"ScaleOutCluster", "TerminateInstance", "DetachInstance",
                     "DrainNode", "ScaleInCluster"}

\* The record of one collaborator call: the operation, the instance it was
\* about (0: none), whether it succeeded, and NodeFailureCount once the code
\* has handled its result.
Call(op, inst, ok, count) == [op |-> op, inst |-> inst, ok |-> ok, count |-> count]

CallsOf(log, ops) == SelectSeq(log, LAMBDA c : c.op \in ops)

\* ---- pure parts of clusterScaling ----

\* A leadership gate that lets every process through.
NotLeaderHalts_Never(leader) == FALSE

\* Line 71: the pass halts when LeaderCheck says this is not the leader.
NotLeaderHalts(leader) == ~leader

\* An evaluation whose error is not looked at.
NoScalingRequired_ErrorIgnored(err, scale) == ~scale

\* Line 89: err != nil || !scale.
NoScalingRequired(err, scale) == err \/ ~scale

\* Line 89: what EvaluateClusterCapacity returned, as one value.
Evaluation(err, scale) == IF err THEN "error" ELSE IF scale THEN "scale" ELSE "none"

\* A cooldown gate that compares with the last event itself, the cooldown
\* not added.
CooldownActive_NotAdded(last, cooldown, t) ==
    /\ last # 0
    /\ t < last

\* Lines 97-101: the cooldown gate; last = 0 is the zero time.
CooldownActive(last, cooldown, t) ==
    /\ last # 0
    /\ t < last + cooldown

\* A retry loop with no bound.
RetryLoopContinues_Always(count, threshold) == TRUE

\* A retry loop that runs one iteration more.
RetryLoopContinues_PlusOne(count, threshold) == count <= threshold + 1

\* Line 143: the bound of the retry loop.
RetryLoopContinues(count, threshold) == count <= threshold

\* A healthy node that leaves the count as it is.
ResetFailureCount_Kept(count) == count

\* Line 168: the count after a verified healthy node.
ResetFailureCount(count) == 0

\* A disable test that fires one failure later.
disableClusterScaling_Above(count, threshold) == count = threshold + 1

\* A disable test that never fires.
disableClusterScaling_Never(count, threshold) == FALSE

\* Lines 244-257: the test of disableClusterScaling.
disableClusterScaling(count, threshold) == count = threshold

\* A drain whose error is ignored.
DrainSucceeded_Always(err) == TRUE

\* Line 225: err == nil.
DrainSucceeded(err) == ~err

\* A disabled check that is never taken.
ScalingDisabled_Ignored(enabled) == FALSE

\* Lines 120 and 218: !scalingEnabled.
ScalingDisabled(enabled) == ~enabled

\* Line 217: LeastAllocatedNode found a node.
NodeEligible(id, ip) == ip # "" /\ id # ""

\* ---- pure parts of jobScaling ----

\* A job scaling policy: the workload's Enabled flag and the ScaleDirection
\* of each of its groups.
SeqsUpTo(S, n) == UNION {[1..k -> S] : k \in 0..n}
JobPolicies == [Enabled : BOOLEAN, GroupScalingPolicies : SeqsUpTo(Directions, MaxGroups)]

\* Lines 291-304: the counter i of one job.
RECURSIVE EligibleGroups(_, _, _)
EligibleGroups(groups, jobEnabled, globalEnabled) ==
    IF groups = <<>> THEN 0
    ELSE LET d == Head(groups)
             rest == EligibleGroups(Tail(groups), jobEnabled, globalEnabled)
         IN IF d = ScalingDirectionOut \/ d = ScalingDirectionIn
            THEN IF jobEnabled /\ globalEnabled THEN rest + 1 ELSE rest
            ELSE rest

\* Line 309: the job is submitted when the counter is positive.
SubmitsJob(i) == i > 0

\* One JobScale for each group counted.
JobScaleCount_PerGroup(i) == i

\* Lines 309-311: the number of JobScale calls for a job whose counter is i.
JobScaleCount(i) == IF SubmitsJob(i) THEN 1 ELSE 0

\* The value of the loop variable outside an iteration.
NoJob == [Enabled |-> FALSE, GroupScalingPolicies |-> <<>>]

\* ---- construction ----

\* NewRunner and the entry of Start (lines 23-39): doneChan open, a fresh
\* ticker, a zero ScalingState; the configuration is whatever the caller gave.
Init ==
    /\ mpc = "select"
    /\ cpc = "idle"
    /\ lingering = 0
    /\ doneChan = "open"
    /\ stoppedMidTick = FALSE
    /\ tickerC = FALSE
    /\ now = 1
    /\ RetryThreshold \in 0..MaxRetryThreshold
    /\ CoolDown \in 0..MaxCoolDown
    /\ ClusterScalingEnabled \in BOOLEAN
    /\ JobScalingEnabled \in BOOLEAN
    /\ Region = ""
    /\ NodeFailureCount = 0
    /\ LastScalingEvent = 0
    /\ scalingEnabled = FALSE
    /\ haveLeadership = FALSE
    /\ evaluation = ""
    /\ ScalingDirection = ScalingDirectionNone
    /\ newestNode = 0
    /\ attempts = 0
    /\ nodeID = ""
    /\ nodeIP = ""
    /\ calls = <<>>
    /\ scale_out_failed = 0
    /\ jobLeadership = FALSE
    /\ jobCount = 0
    /\ jobIndex = 0
    /\ job = NoJob
    /\ jobCalls = <<>>

\* ---- environment ----

\* One ticker period passes.  The ticker drops the tick when one is already
\* waiting, and delivers nothing once Start has returned (defer ticker.Stop).
ClockTick ==
    /\ now < MaxTime
    /\ now' = now + 1
    /\ tickerC' = IF mpc = "returned" THEN tickerC ELSE TRUE
    /\ UNCHANGED <<mpc, cpc, lingering, doneChan, stoppedMidTick, config,
                   ClusterScalingEnabled, Region, scalingState, locals, calls,
                   scale_out_failed, jobVars>>

\* Stop (lines 58-60).  Closing a closed channel panics: Stop is called once.
Stop ==
    /\ doneChan = "open"
    /\ doneChan' = "closed"
    /\ stoppedMidTick' = (mpc \notin {"select", "returned"})
    /\ UNCHANGED <<mpc, cpc, lingering, tickerC, now, config, ClusterScalingEnabled, Region,
                   scalingState, locals, calls, scale_out_failed, jobVars>>

\* ---- Start ----

\* Lines 43-47: the select takes the tick, launches the goroutine and blocks
\* on clusterChan.
StartTick ==
    /\ mpc = "select"
    /\ tickerC
    /\ tickerC' = FALSE
    /\ mpc' = "clusterChan"
    /\ cpc' = "LeaderCheck"
    /\ UNCHANGED <<lingering, doneChan, stoppedMidTick, now, config, ClusterScalingEnabled,
                   Region, scalingState, locals, calls, scale_out_failed, jobVars>>

\* A select whose shutdown case leaves the select, not the loop.
StartDone_BreakOnly ==
    /\ mpc = "select"
    /\ doneChan = "closed"
    /\ mpc' = "select"
    /\ UNCHANGED <<cpc, lingering, doneChan, stoppedMidTick, tickerC, now, config,
                   ClusterScalingEnabled, Region, scalingState, locals, calls,
                   scale_out_failed, jobVars>>

\* Lines 51-52: the select takes the closed doneChan.  With a tick waiting as
\* well, the select takes either.
StartDone ==
    /\ mpc = "select"
    /\ doneChan = "closed"
    /\ mpc' = "returned"
    /\ UNCHANGED <<cpc, lingering, doneChan, stoppedMidTick, tickerC, now, config,
                   ClusterScalingEnabled, Region, scalingState, locals, calls,
                   scale_out_failed, jobVars>>

\* ---- clusterScaling ----

\* The goroutine's locals die with it; the record of its calls is kept only
\* while the pass runs.
clearedLocals ==
    /\ calls' = <<>>
    /\ scale_out_failed' = 0
    /\ scalingEnabled' = FALSE
    /\ haveLeadership' = FALSE
    /\ evaluation' = ""
    /\ ScalingDirection' = ScalingDirectionNone
    /\ newestNode' = 0
    /\ attempts' = 0
    /\ nodeID' = ""
    /\ nodeIP' = ""

\* Lines 66-76: read the flag, ask LeaderCheck, halt when not the leader.
CS_LeaderCheck ==
    /\ cpc = "LeaderCheck"
    /\ scalingEnabled' = ClusterScalingEnabled
    /\ \E leader \in BOOLEAN :
        /\ haveLeadership' = leader
        /\ cpc' = IF NotLeaderHalts(leader) THEN "done" ELSE "Evaluate"
    /\ UNCHANGED <<lingering, runnerVars, config, ClusterScalingEnabled, Region, scalingState,
                   evaluation, ScalingDirection, newestNode, attempts, nodeID, nodeIP, calls,
                   scale_out_failed, jobVars>>

\* Lines 78-91: resolve the region when none is configured, then
\* EvaluateClusterCapacity into a fresh ClusterCapacity.
CS_Evaluate ==
    /\ cpc = "Evaluate"
    /\ IF Region = ""
       THEN \E regionErr \in BOOLEAN : Region' = IF regionErr THEN "" ELSE "region"
       ELSE Region' = Region
    /\ \E err \in BOOLEAN, scale \in BOOLEAN, direction \in Directions :
        /\ ScalingDirection' = direction
        /\ evaluation' = Evaluation(err, scale)
        /\ cpc' = IF NoScalingRequired(err, scale) THEN "end" ELSE "Cooldown"
    /\ UNCHANGED <<lingering, runnerVars, config, ClusterScalingEnabled, scalingState,
                   scalingEnabled, haveLeadership, newestNode, attempts, nodeID, nodeIP,
                   calls, scale_out_failed, jobVars>>

\* Lines 94-115: the cooldown gate, with time.Now() read here.
CS_Cooldown ==
    /\ cpc = "Cooldown"
    /\ cpc' = IF CooldownActive(LastScalingEvent, CoolDown, now) THEN "done" ELSE "ScaleOut"
    /\ UNCHANGED <<lingering, runnerVars, config, ClusterScalingEnabled, Region, scalingState,
                   locals, calls, scale_out_failed, jobVars>>

\* Lines 117-136: the head of the scale-out branch: the disabled check and
\* ScaleOutCluster.
CS_ScaleOut ==
    /\ cpc = "ScaleOut"
    /\ IF ScalingDirection = ScalingDirectionOut
       THEN IF ScalingDisabled(scalingEnabled)
            THEN cpc' = "done" /\ calls' = calls
            ELSE \E err \in BOOLEAN :
                    /\ calls' = Append(calls, Call("ScaleOutCluster", 0, ~err, NodeFailureCount))
                    /\ cpc' = IF err THEN "done" ELSE "loop"
       ELSE cpc' = "ScaleIn" /\ calls' = calls
    /\ UNCHANGED <<lingering, runnerVars, config, ClusterScalingEnabled, Region, scalingState,
                   locals, scale_out_failed, jobVars>>

\* Lines 143-161: the loop test and GetMostRecentInstance.  An instance
\* identified is named by its rank among the instances identified in the pass.
CS_Identify ==
    /\ cpc = "loop"
    /\ IF ~RetryLoopContinues(NodeFailureCount, RetryThreshold)
       THEN /\ cpc' = "ScaleIn"
            /\ UNCHANGED <<NodeFailureCount, newestNode, attempts, calls>>
       ELSE \E err \in BOOLEAN :
               IF err
               THEN /\ NodeFailureCount' = NodeFailureCount + 1
                    /\ calls' = Append(calls, Call("GetMostRecentInstance", 0, FALSE,
                                                   NodeFailureCount + 1))
                    /\ cpc' = "loop"
                    /\ UNCHANGED <<newestNode, attempts>>
               ELSE /\ attempts' = attempts + 1
                    /\ newestNode' = attempts + 1
                    /\ calls' = Append(calls, Call("GetMostRecentInstance", attempts + 1,
                                                   TRUE, NodeFailureCount))
                    /\ cpc' = "Verify"
                    /\ UNCHANGED NodeFailureCount
    /\ UNCHANGED <<lingering, runnerVars, config, ClusterScalingEnabled, Region,
                   LastScalingEvent, scalingEnabled, haveLeadership, evaluation,
                   ScalingDirection,
                   nodeID, nodeIP, scale_out_failed, jobVars>>

\* Lines 165-211: VerifyNodeHealth and what follows it: the reset on a
\* healthy node; on an unhealthy one the increment, the failure counter,
\* disableClusterScaling and the detach or the terminate.  The errors of
\* DetachInstance and TerminateInstance are logged and change nothing.
CS_Verify ==
    /\ cpc = "Verify"
    /\ \E healthy \in BOOLEAN :
        IF healthy
        THEN /\ NodeFailureCount' = ResetFailureCount(NodeFailureCount)
             /\ LastScalingEvent' = now
             /\ calls' = Append(calls, Call("VerifyNodeHealth", newestNode, TRUE,
                                            NodeFailureCount'))
             /\ cpc' = "done"
             /\ UNCHANGED <<ClusterScalingEnabled, scale_out_failed>>
        ELSE /\ NodeFailureCount' = NodeFailureCount + 1
             /\ scale_out_failed' = scale_out_failed + 1
             /\ UNCHANGED LastScalingEvent
             /\ IF disableClusterScaling(NodeFailureCount + 1, RetryThreshold)
                THEN /\ ClusterScalingEnabled' = FALSE
                     /\ calls' = calls \o
                            <<Call("VerifyNodeHealth", newestNode, FALSE, NodeFailureCount'),
                              Call("DetachInstance", newestNode, TRUE, NodeFailureCount')>>
                     /\ cpc' = "done"
                ELSE /\ ClusterScalingEnabled' = ClusterScalingEnabled
                     /\ calls' = calls \o
                            <<Call("VerifyNodeHealth", newestNode, FALSE, NodeFailureCount'),
                              Call("TerminateInstance", newestNode, TRUE, NodeFailureCount')>>
                     /\ cpc' = "loop"
    /\ UNCHANGED <<lingering, runnerVars, config, Region, locals, jobVars>>

\* Lines 215-223: LeastAllocatedNode and the disabled check of the scale-in
\* branch.
CS_ScaleIn ==
    /\ cpc = "ScaleIn"
    /\ IF ScalingDirection = ScalingDirectionIn
       THEN \E id \in {"", "node"}, ip \in {"", "ip"} :
               /\ nodeID' = id
               /\ nodeIP' = ip
               /\ cpc' = IF NodeEligible(id, ip)
                         THEN IF ScalingDisabled(scalingEnabled) THEN "done" ELSE "DrainNode"
                         ELSE "end"
       ELSE cpc' = "end" /\ UNCHANGED <<nodeID, nodeIP>>
    /\ UNCHANGED <<lingering, runnerVars, config, ClusterScalingEnabled, Region, scalingState,
                   scalingEnabled, haveLeadership, evaluation, ScalingDirection, newestNode,
                   attempts,
                   calls, scale_out_failed, jobVars>>

\* Line 225: DrainNode.
CS_DrainNode ==
    /\ cpc = "DrainNode"
    /\ \E err \in BOOLEAN :
        /\ calls' = Append(calls, Call("DrainNode", 0, ~err, NodeFailureCount))
        /\ cpc' = IF DrainSucceeded(err) THEN "ScaleInCluster" ELSE "end"
    /\ UNCHANGED <<lingering, runnerVars, config, ClusterScalingEnabled, Region, scalingState,
                   locals, scale_out_failed, jobVars>>

\* Lines 226-234: ScaleInCluster, and the timestamp when it succeeds.
CS_ScaleInCluster ==
    /\ cpc = "ScaleInCluster"
    /\ \E err \in BOOLEAN :
        /\ calls' = Append(calls, Call("ScaleInCluster", 0, ~err, NodeFailureCount))
        /\ LastScalingEvent' = IF err THEN LastScalingEvent ELSE now
    /\ cpc' = "end"
    /\ UNCHANGED <<lingering, runnerVars, config, ClusterScalingEnabled, Region,
                   NodeFailureCount, locals, scale_out_failed, jobVars>>

\* An early completion signal after which the goroutine goes on to line 240.
CS_Done_Emitting ==
    /\ cpc = "done"
    /\ mpc = "clusterChan"
    /\ cpc' = "idle"
    /\ lingering' = lingering + 1
    /\ mpc' = "jobScaling"
    /\ clearedLocals
    /\ UNCHANGED <<runnerRest, config, ClusterScalingEnabled, Region,
                   scalingState, jobVars>>

\* An early completion signal with no return after it: the goroutine goes on
\* to the send of line 239.
CS_Done_NoReturn ==
    /\ cpc = "done"
    /\ mpc = "clusterChan"
    /\ cpc' = "end"
    /\ mpc' = "jobScaling"
    /\ clearedLocals
    /\ UNCHANGED <<lingering, runnerRest, config, ClusterScalingEnabled, Region,
                   scalingState, jobVars>>

\* "done <- true; return" (lines 74, 106, 124, 134, 173, 203, 221) meeting
\* the receive of line 47: the goroutine is gone, Start goes on to jobScaling.
CS_Done ==
    /\ cpc = "done"
    /\ mpc = "clusterChan"
    /\ cpc' = "idle"
    /\ mpc' = "jobScaling"
    /\ clearedLocals
    /\ UNCHANGED <<lingering, runnerRest, config, ClusterScalingEnabled, Region,
                   scalingState, jobVars>>

\* Line 239 meeting the receive of line 47: Start goes on to jobScaling while
\* the goroutine still has line 240 to run.
CS_End ==
    /\ cpc = "end"
    /\ mpc = "clusterChan"
    /\ cpc' = "idle"
    /\ lingering' = lingering + 1
    /\ mpc' = "jobScaling"
    /\ clearedLocals
    /\ UNCHANGED <<runnerRest, config, ClusterScalingEnabled, Region,
                   scalingState, jobVars>>

\* Lines 240-241: the cluster.scale_out_success counter, then the goroutine
\* returns.
CS_EmitSuccess ==
    /\ lingering > 0
    /\ lingering' = lingering - 1
    /\ UNCHANGED <<runnerVars, cpc, config, ClusterScalingEnabled, Region,
                   scalingState, locals, calls, scale_out_failed, jobVars>>

\* ---- jobScaling ----

\* jobScaling runs on Start's loop (line 49).  resp is read one job at a
\* time by the range loop and a job is read nowhere else, so the content of
\* a job is drawn when the loop reaches it.

\* Lines 265-285: LeaderCheck, GetJobScalingPolicies, EvaluateJobScaling.
JS_Enter ==
    /\ mpc = "jobScaling"
    /\ jobCalls' = <<>>
    /\ job' = NoJob
    /\ \E leader \in BOOLEAN :
        /\ jobLeadership' = leader
        /\ IF NotLeaderHalts(leader)
           THEN mpc' = "jobReturn" /\ UNCHANGED <<jobCount, jobIndex>>
           ELSE \E err \in BOOLEAN :
                   IF err
                   THEN mpc' = "jobReturn" /\ UNCHANGED <<jobCount, jobIndex>>
                   ELSE \E n \in 0..MaxJobs :
                           /\ jobCount' = n
                           /\ jobIndex' = 1
                           /\ mpc' = "jobRange"
    /\ UNCHANGED <<cpc, lingering, runnerRest, config, ClusterScalingEnabled, Region,
                   scalingState, locals, calls, scale_out_failed>>

\* Lines 286-312: one iteration of the range loop over resp, or its end.
\* The loop variable is kept in the state when keep is true.
JS_Range(keep) ==
    /\ mpc = "jobRange"
    /\ IF jobIndex > jobCount
       THEN mpc' = "jobReturn" /\ UNCHANGED <<jobIndex, job, jobCalls>>
       ELSE \E j \in JobPolicies :
               LET i == EligibleGroups(j.GroupScalingPolicies, j.Enabled,
                                       JobScalingEnabled)
               IN /\ jobCalls' = jobCalls \o [k \in 1..JobScaleCount(i) |-> jobIndex]
                  /\ jobIndex' = jobIndex + 1
                  /\ job' = IF keep THEN j ELSE NoJob
                  /\ mpc' = "jobRange"
    /\ UNCHANGED <<cpc, lingering, runnerRest, config, ClusterScalingEnabled, Region,
                   scalingState, locals, calls, scale_out_failed, jobLeadership,
                   jobCount>>

JS_Job == JS_Range(FALSE)

\* The same iteration, the job it read left in the state.
JS_JobKept == JS_Range(TRUE)

\* Lines 271, 279, 313: jobScaling returns to the select of Start.
JS_Return ==
    /\ mpc = "jobReturn"
    /\ mpc' = "select"
    /\ jobLeadership' = FALSE
    /\ jobCount' = 0
    /\ jobIndex' = 0
    /\ job' = NoJob
    /\ jobCalls' = <<>>
    /\ UNCHANGED <<cpc, lingering, runnerRest, config, ClusterScalingEnabled, Region,
                   scalingState, locals, calls, scale_out_failed>>

\* ---- specification ----

Next ==
    \/ ClockTick
    \/ Stop
    \/ StartTick
    \/ StartDone
    \/ CS_LeaderCheck
    \/ CS_Evaluate
    \/ CS_Cooldown
    \/ CS_ScaleOut
    \/ CS_Identify
    \/ CS_Verify
    \/ CS_ScaleIn
    \/ CS_DrainNode
    \/ CS_ScaleInCluster
    \/ CS_Done
    \/ CS_End
    \/ CS_EmitSuccess
    \/ JS_Enter
    \/ JS_Job
    \/ JS_Return

Spec == Init /\ [][Next]_vars

\* The steps of the clusterScaling goroutine up to its completion signal.
ClusterPass ==
    \/ CS_LeaderCheck
    \/ CS_Evaluate
    \/ CS_Cooldown
    \/ CS_ScaleOut
    \/ CS_Identify
    \/ CS_Verify
    \/ CS_ScaleIn
    \/ CS_DrainNode
    \/ CS_ScaleInCluster
    \/ CS_Done
    \/ CS_End

\* The steps of jobScaling.
JobPass == JS_Enter \/ JS_Job \/ JS_Return

\* The Runner under the Go scheduler, with collaborators that return: a
\* goroutine that can run does run (the clusterScaling goroutine, and Start
\* inside jobScaling); a select with a ready case takes one (line 41); and
\* a select takes its ready cases at random, so a shutdown case that is ready
\* again and again is taken.
FairSpec ==
    /\ Init
    /\ [][Next]_vars
    /\ WF_vars(ClusterPass)
    /\ WF_vars(JobPass)
    /\ WF_vars(StartTick \/ StartDone)
    /\ SF_vars(StartDone)

\* The Runner with cluster scaling disabled by its configuration, which
\* jobScaling does not read, and with the job of each iteration of jobScaling
\* left in the state.
InitJob ==
    /\ Init
    /\ ~ClusterScalingEnabled
    /\ RetryThreshold = 0
    /\ CoolDown = 0

NextJob ==
    \/ ClockTick
    \/ Stop
    \/ StartTick
    \/ StartDone
    \/ CS_LeaderCheck
    \/ CS_Evaluate
    \/ CS_Cooldown
    \/ CS_ScaleOut
    \/ CS_ScaleIn
    \/ CS_Done
    \/ CS_End
    \/ CS_EmitSuccess
    \/ JS_Enter
    \/ JS_JobKept
    \/ JS_Return

SpecJob == InitJob /\ [][NextJob]_vars

TypeOK ==
    /\ mpc \in {"select", "clusterChan", "jobScaling", "jobRange", "jobReturn", "returned"}
    /\ cpc \in {"idle", "LeaderCheck", "Evaluate", "Cooldown", "ScaleOut", "loop", "Verify",
                "ScaleIn", "DrainNode", "ScaleInCluster", "done", "end"}
    /\ lingering \in 0..MaxTime
    /\ doneChan \in {"open", "closed"}
    /\ now \in 1..MaxTime
    /\ NodeFailureCount \in 0..(MaxRetryThreshold + 1)
    /\ LastScalingEvent \in 0..MaxTime
    /\ evaluation \in {"", "error", "none", "scale"}

\* ---- reading the record of a pass ----

\* The pass has done all its work and only has its completion to signal.
PassOver == cpc \in {"done", "end"}

\* A provisioning failure: a failed identification or an unhealthy node.
IsFailure(c) == c.op \in {"GetMostRecentInstance", "VerifyNodeHealth"} /\ ~c.ok

IsVerification(c) == c.op = "VerifyNodeHealth"

MutationCalls(log) == CallsOf(log, ClusterMutations)

\* The step issues a collaborator mutation call.
IssuesMutation == Len(MutationCalls(calls')) > Len(MutationCalls(calls))

\* The running pass has set ClusterScaling.Enabled to false.
SelfDisabled == scalingEnabled /\ ~ClusterScalingEnabled

\* ---- C1 ----

\* C1: at the end of every cluster-scaling pass, the pass has set
\* ClusterScaling.Enabled to false if and only if one of its increments in the
\* retry loop gave NodeFailureCount the value RetryThreshold.
C1_SelfDisableIffThresholdReached ==
    PassOver =>
        ((\E i \in DOMAIN calls : IsFailure(calls[i]) /\ calls[i].count = RetryThreshold)
            <=> SelfDisabled)

\* ---- C2 ----

\* C2: no collaborator mutation call is issued while LastScalingEvent is
\* non-zero and now < LastScalingEvent + CoolDown; LastScalingEvent, once
\* non-zero, only moves to a time at least CoolDown later; and the cooldown
\* gate lets every pass with a zero LastScalingEvent through.
C2_CooldownSuppresses ==
    [][/\ IssuesMutation =>
            ~(LastScalingEvent # 0 /\ now < LastScalingEvent + CoolDown)
       /\ (LastScalingEvent' # LastScalingEvent /\ LastScalingEvent # 0) =>
            LastScalingEvent' >= LastScalingEvent + CoolDown
       /\ (cpc = "Cooldown" /\ cpc' # cpc /\ LastScalingEvent = 0) =>
            cpc' = "ScaleOut"]_vars

\* A pass that wanted to scale out with scaling enabled, stopped by the
\* cooldown gate before any call.
C2_Witness ==
    /\ cpc = "done"
    /\ haveLeadership
    /\ scalingEnabled
    /\ ScalingDirection = ScalingDirectionOut
    /\ calls = <<>>
    /\ LastScalingEvent # 0
    /\ now < LastScalingEvent + CoolDown

\* ---- C3 ----

JobPositions == {"jobScaling", "jobRange", "jobReturn"}

\* C3: a cluster pass whose LeaderCheck said "not leader" issues no
\* collaborator call, changes none of NodeFailureCount, LastScalingEvent and
\* ClusterScaling.Enabled, and goes straight to signalling completion, which
\* Start is waiting for; a job pass whose LeaderCheck said "not leader"
\* returns without a JobScale submission.
C3_NotLeaderNoMutation ==
    /\ []((cpc = "done" /\ ~haveLeadership) => (calls = <<>> /\ mpc = "clusterChan"))
    /\ []((mpc \in {"jobRange", "jobReturn"} /\ ~jobLeadership) =>
            (mpc = "jobReturn" /\ jobCalls = <<>>))
    /\ [][/\ (cpc = "LeaderCheck" /\ cpc' # cpc /\ ~haveLeadership') =>
                /\ cpc' = "done"
                /\ UNCHANGED <<NodeFailureCount, LastScalingEvent, ClusterScalingEnabled>>
          /\ (cpc = "done" /\ ~haveLeadership) =>
                /\ UNCHANGED <<NodeFailureCount, LastScalingEvent, ClusterScalingEnabled>>
                /\ cpc' = cpc \/ (cpc' = "idle" /\ mpc' = "jobScaling")]_vars

\* A pass halted by the leadership gate, about to signal completion.
C3_Witness ==
    /\ cpc = "done"
    /\ ~haveLeadership
    /\ calls = <<>>
    /\ NodeFailureCount > 0

\* ---- C4 ----

Verifications(log) == Len(SelectSeq(log, IsVerification))

\* The running pass entered its retry loop with NodeFailureCount = 0 and has
\* met no healthy node.
FromZeroNoneHealthy ==
    /\ \A i \in DOMAIN calls : IsVerification(calls[i]) => ~calls[i].ok
    /\ NodeFailureCount = Len(SelectSeq(calls, IsFailure))

\* The same, every identification having succeeded.
FromZeroOnlyUnhealthy ==
    /\ FromZeroNoneHealthy
    /\ \A i \in DOMAIN calls : IsFailure(calls[i]) => IsVerification(calls[i])

\* C4 as claimed: a pass that starts with NodeFailureCount = 0, sees only
\* unhealthy instances and self-disables has made exactly RetryThreshold + 1
\* health verifications.
C4_ThresholdPlusOneAttempts ==
    (PassOver /\ FromZeroOnlyUnhealthy /\ SelfDisabled) =>
        Verifications(calls) = RetryThreshold + 1

\* C4 as amended: a pass that starts with NodeFailureCount = 0 and sees only
\* unhealthy instances makes exactly RetryThreshold health verifications when
\* RetryThreshold >= 1, self-disabling on the last one; when RetryThreshold = 0
\* it makes exactly one and does not self-disable.
C4_ThresholdAttempts ==
    (PassOver /\ FromZeroOnlyUnhealthy /\ Verifications(calls) > 0) =>
        IF RetryThreshold >= 1
        THEN /\ SelfDisabled
             /\ cpc = "done"
             /\ Verifications(calls) = RetryThreshold
             /\ NodeFailureCount = RetryThreshold
        ELSE /\ ~SelfDisabled
             /\ Verifications(calls) = 1
             /\ NodeFailureCount = 1

\* RetryThreshold = 2: the pass self-disabled on its second unhealthy instance.
C4_Witness ==
    /\ PassOver
    /\ FromZeroOnlyUnhealthy
    /\ SelfDisabled
    /\ RetryThreshold = 2
    /\ Verifications(calls) = 2

\* ---- C5 ----

\* C5: in a pass that starts with NodeFailureCount = 0 and meets no healthy
\* node, with RetryThreshold >= 1: an unhealthy instance that leaves the count
\* below RetryThreshold is terminated and the loop goes on to another
\* identification; the one that makes the count equal RetryThreshold is
\* detached and not terminated, ClusterScaling.Enabled is false, and the pass
\* ends there.
C5_TerminateBelowDetachAtThreshold ==
    (RetryThreshold >= 1 /\ FromZeroNoneHealthy) =>
        \A i \in DOMAIN calls :
            (IsVerification(calls[i]) /\ ~calls[i].ok) =>
                /\ i < Len(calls)
                /\ calls[i + 1].inst = calls[i].inst
                /\ calls[i].count < RetryThreshold =>
                    /\ calls[i + 1].op = "TerminateInstance"
                    /\ IF i + 1 = Len(calls)
                       THEN cpc = "loop"
                       ELSE calls[i + 2].op = "GetMostRecentInstance"
                /\ calls[i].count = RetryThreshold =>
                    /\ calls[i + 1].op = "DetachInstance"
                    /\ i + 1 = Len(calls)
                    /\ \A j \in DOMAIN calls :
                          calls[j].op = "TerminateInstance" => calls[j].inst # calls[i].inst
                    /\ ~ClusterScalingEnabled
                    /\ cpc = "done"

\* RetryThreshold = 2 and two unhealthy instances: the first terminated, the
\* second detached, scaling disabled, the pass over.
C5_Witness ==
    /\ RetryThreshold = 2
    /\ FromZeroNoneHealthy
    /\ cpc = "done"
    /\ ~ClusterScalingEnabled
    /\ attempts = 2
    /\ MutationCalls(calls) =
          <<Call("ScaleOutCluster", 0, TRUE, 0), Call("TerminateInstance", 1, TRUE, 1),
            Call("DetachInstance", 2, TRUE, 2)>>

\* ---- C6 ----

\* The step is the verification of a healthy node.
HealthyStep ==
    /\ cpc = "Verify"
    /\ Len(calls') = Len(calls) + 1
    /\ IsVerification(calls'[Len(calls')])
    /\ calls'[Len(calls')].ok

\* C6: NodeFailureCount is 0 after every healthy verification and whenever a
\* pass enters its retry loop, and it is incremented only in the retry loop.
C6_NoFailuresCarriedOver ==
    [][/\ (HealthyStep => NodeFailureCount' = 0)
       /\ ((cpc = "ScaleOut" /\ cpc' = "loop") => NodeFailureCount' = 0)
       /\ (NodeFailureCount' > NodeFailureCount => cpc \in {"loop", "Verify"})
      ]_vars

\* ---- C7 ----

\* C7: in the scale-out branch NodeFailureCount goes down only in the
\* verification of a healthy node; that step sets it to 0, sets
\* LastScalingEvent to the current time and ends the pass; no other step of
\* the branch changes LastScalingEvent.
C7_MonotoneUntilHealthy ==
    [][(cpc \in {"ScaleOut", "loop", "Verify"}) =>
        /\ (NodeFailureCount' < NodeFailureCount => HealthyStep)
        /\ (HealthyStep =>
              (NodeFailureCount' = 0 /\ LastScalingEvent' = now /\ cpc' = "done"))
        /\ (LastScalingEvent' # LastScalingEvent => HealthyStep)
      ]_vars

\* A healthy node after earlier failures in the same loop: the count is back
\* to 0 and the timestamp is the current time.
C7_Witness ==
    /\ cpc = "done"
    /\ calls # <<>>
    /\ IsVerification(calls[Len(calls)])
    /\ calls[Len(calls)].ok
    /\ \E i \in DOMAIN calls : IsFailure(calls[i])
    /\ NodeFailureCount = 0
    /\ LastScalingEvent = now

\* ---- C8 ----

\* C8: ScaleInCluster is called only right after a DrainNode that succeeded;
\* after a DrainNode that failed there is no ScaleInCluster; with an empty
\* node id or address there is neither; and a step of the scale-in branch
\* changes LastScalingEvent only when it is a ScaleInCluster that succeeded,
\* to the current time.
C8_ScaleInChain ==
    /\ [](\A i \in DOMAIN calls :
            /\ calls[i].op = "ScaleInCluster" =>
                (i > 1 /\ calls[i - 1].op = "DrainNode" /\ calls[i - 1].ok)
            /\ (calls[i].op = "DrainNode" /\ ~calls[i].ok) => i = Len(calls))
    /\ [](~NodeEligible(nodeID, nodeIP) =>
            \A i \in DOMAIN calls : calls[i].op \notin {"DrainNode", "ScaleInCluster"})
    /\ [][(cpc \in {"ScaleIn", "DrainNode", "ScaleInCluster", "end"}
            /\ LastScalingEvent' # LastScalingEvent) =>
                /\ cpc = "ScaleInCluster"
                /\ calls'[Len(calls')].op = "ScaleInCluster"
                /\ calls'[Len(calls')].ok
                /\ LastScalingEvent' = now
          ]_vars

\* A complete scale-in: drained, terminated, timestamp updated.
C8_Witness ==
    /\ cpc = "end"
    /\ ScalingDirection = ScalingDirectionIn
    /\ MutationCalls(calls) =
          <<Call("DrainNode", 0, TRUE, 0), Call("ScaleInCluster", 0, TRUE, 0)>>
    /\ LastScalingEvent = now

\* ---- C9 ----

\* C9: while Start is in jobScaling no clusterScaling goroutine has anything
\* left to run, and none of an earlier tick is left when Start waits for the
\* pass of a new tick.
C9_ClusterPassOverBeforeJob ==
    /\ mpc \in JobPositions => (cpc = "idle" /\ lingering = 0)
    /\ mpc = "clusterChan" => lingering = 0

\* ---- C10 ----

\* C10: after a Stop called while a tick was being served, Start launches no
\* further cluster-scaling pass.
C10_NoTickAfterStop ==
    [][(doneChan = "closed" /\ stoppedMidTick) =>
            ~(mpc = "select" /\ mpc' = "clusterChan")]_vars

\* ---- C11 ----

\* The running pass has read ClusterScaling.Enabled and found it false.
StartedDisabled == cpc \notin {"idle", "LeaderCheck"} /\ ~scalingEnabled

\* C11: a pass that found ClusterScaling.Enabled false issues no collaborator
\* call and changes neither NodeFailureCount nor LastScalingEvent; and no step
\* sets the flag back to true, so a flag that is false stays false and is not
\* set to false again.
C11_DisabledPassDoesNothing ==
    /\ [](StartedDisabled => calls = <<>>)
    /\ [][/\ (StartedDisabled => UNCHANGED <<NodeFailureCount, LastScalingEvent>>)
          /\ (~ClusterScalingEnabled => ~ClusterScalingEnabled')
          /\ (~ClusterScalingEnabled => ~IssuesMutation)
         ]_vars

\* A later pass as leader, wanting to scale out, stopped by the flag that an
\* earlier pass set to false at the threshold.
C11_Witness ==
    /\ cpc = "done"
    /\ haveLeadership
    /\ ~scalingEnabled
    /\ ScalingDirection = ScalingDirectionOut
    /\ calls = <<>>
    /\ RetryThreshold >= 1
    /\ NodeFailureCount = RetryThreshold

\* ---- C12 ----

\* The number of times x occurs in the sequence q.
Occurrences(q, x) == Cardinality({n \in DOMAIN q : q[n] = x})

\* C12: in a job pass run as leader, once the loop has read a job, JobScale
\* has been called for it exactly once if one of its groups has direction
\* Out or In and both the job's Enabled and JobScaling.Enabled are true, and
\* not at all otherwise; and no job has been submitted more than once.
C12_OneJobScalePerEligibleJob ==
    /\ (mpc \in {"jobRange", "jobReturn"} /\ jobLeadership /\ jobIndex > 1) =>
          Occurrences(jobCalls, jobIndex - 1) =
              IF /\ \E g \in DOMAIN job.GroupScalingPolicies :
                        job.GroupScalingPolicies[g] \in
                            {ScalingDirectionOut, ScalingDirectionIn}
                 /\ job.Enabled
                 /\ JobScalingEnabled
              THEN 1
              ELSE 0
    /\ \A x \in 1..MaxJobs : Occurrences(jobCalls, x) <= 1
    /\ \A n \in DOMAIN jobCalls : jobCalls[n] < jobIndex

\* A job with one group to scale out and one with nothing to do, submitted
\* once.
C12_Witness ==
    /\ mpc = "jobRange"
    /\ jobLeadership
    /\ JobScalingEnabled
    /\ jobIndex = 2
    /\ job = [Enabled |-> TRUE,
              GroupScalingPolicies |-> <<ScalingDirectionOut, ScalingDirectionNone>>]
    /\ jobCalls = <<1>>

\* ---- C13 ----

\* The running pass was told by EvaluateClusterCapacity that it failed, that
\* no scaling is required, or that the direction is None.
NothingToScale ==
    \/ evaluation \in {"error", "none"}
    \/ evaluation = "scale" /\ ScalingDirection = ScalingDirectionNone

EarlySignal ==
    \/ cpc = "LeaderCheck" /\ ~haveLeadership'
    \/ cpc = "Cooldown" /\ LastScalingEvent > 0 /\ now < LastScalingEvent + CoolDown
    \/ cpc = "ScaleOut" /\ ScalingDirection = ScalingDirectionOut /\ ~scalingEnabled
    \/ /\ cpc = "ScaleIn"
       /\ ScalingDirection = ScalingDirectionIn
       /\ nodeID' # "" /\ nodeIP' # ""
       /\ ~scalingEnabled
    \/ /\ cpc = "ScaleOut"
       /\ Len(calls') = Len(calls) + 1
       /\ calls'[Len(calls')].op = "ScaleOutCluster"
       /\ ~calls'[Len(calls')].ok
    \/ cpc = "Verify" /\ calls'[Len(calls')].op = "VerifyNodeHealth" /\ calls'[Len(calls')].ok
    \/ cpc = "Verify" /\ ClusterScalingEnabled /\ ~ClusterScalingEnabled'

\* C14: a goroutine is left to emit cluster.scale_out_success exactly by a
\* pass that signals completion at the end of clusterScaling; a pass that
\* signals completion early (not leader, cooldown active, scaling disabled,
\* ScaleOutCluster failure, verified-healthy scale-out, self-disable) leaves
\* none, and each such goroutine emits once.
C14_SuccessOnlyAtEnd ==
    [][/\ (lingering' > lingering) =>
            (cpc = "end" /\ cpc' = "idle" /\ lingering' = lingering + 1)
       /\ (cpc = "end" /\ cpc' = "idle") => lingering' = lingering + 1
       /\ (cpc = "done" /\ cpc' = "idle") => lingering' = lingering
       /\ (lingering' < lingering) => (lingering' = lingering - 1 /\ cpc' = cpc)
       /\ (cpc # "done" /\ cpc' = "done") => EarlySignal
       /\ (cpc # "end" /\ cpc' = "end") => ~EarlySignal
      ]_vars

\* A pass has ended at the end of clusterScaling with its counter still to
\* emit, and the next pass is at an early completion signal because of the
\* cooldown.
C14_Witness ==
    /\ lingering = 1
    /\ cpc = "done"
    /\ haveLeadership
    /\ evaluation = "scale"
    /\ calls = <<>>
    /\ scalingEnabled

\* ---- C15 ----

\* C15: every step of the retry loop that increments NodeFailureCount, after
\* a failed identification or an unhealthy verification, increments it by
\* one and emits one cluster.scale_out_failed, and nothing else emits that
\* counter; a failed identification issues no TerminateInstance or
\* DetachInstance call.
C15_FailureCountedAndEmitted ==
    [][/\ (NodeFailureCount' > NodeFailureCount) =>
            /\ NodeFailureCount' = NodeFailureCount + 1
            /\ scale_out_failed' = scale_out_failed + 1
       /\ (scale_out_failed' > scale_out_failed) =>
            /\ scale_out_failed' = scale_out_failed + 1
            /\ NodeFailureCount' = NodeFailureCount + 1
       /\ (cpc = "loop" /\ Len(calls') > Len(calls)) =>
            MutationCalls(calls') = MutationCalls(calls)
      ]_vars

\* ---- C16 ----

\* C16: a clusterScaling goroutine that has not yet sent on its completion
\* channel exists exactly while Start waits at its receive; the receive is
\* met by one send of a goroutine that is at a completion signal, and that
\* goroutine never comes to a send again.
C16_OneSendPerPass ==
    /\ []((cpc # "idle") <=> (mpc = "clusterChan"))
    /\ [][/\ (mpc = "clusterChan" /\ mpc' # mpc) =>
               (cpc \in {"done", "end"} /\ cpc' = "idle" /\ mpc' = "jobScaling")
          /\ (cpc # "idle" /\ cpc' = "idle") =>
               (mpc = "clusterChan" /\ mpc' = "jobScaling")
          /\ (cpc = "idle" /\ cpc' # "idle") =>
               (mpc = "select" /\ mpc' = "clusterChan" /\ cpc' = "LeaderCheck")
         ]_vars

\* Start has received the one send of a pass that ended at line 239, and
\* the goroutine has only its counter left to emit.
C16_Witness ==
    /\ mpc = "jobScaling"
    /\ cpc = "idle"
    /\ lingering = 1

\* ---- C17 ----

\* C17: under fair scheduling and with collaborators that return, once Stop
\* has closed doneChan Start eventually returns, whatever tick was being
\* served.
C17_StartReturnsAfterStop == (doneChan = "closed") ~> (mpc = "returned")

\* Start has returned after a Stop that came while a tick was being served.
C17_Witness ==
    /\ mpc = "returned"
    /\ doneChan = "closed"
    /\ stoppedMidTick

\* ---- C18 ----

\* C18: a pass in which ScaleOutCluster returned no error has, by the time
\* it signals completion, made at least one attempt to identify the new
\* instance.
C18_ScaleOutThenAttempt ==
    PassOver =>
        ((\E n \in DOMAIN calls : calls[n].op = "ScaleOutCluster" /\ calls[n].ok)
            => (\E n \in DOMAIN calls : calls[n].op = "GetMostRecentInstance"))

\* ---- C19 ----

\* C19: in every reachable state, 0 <= NodeFailureCount <= RetryThreshold + 1.
C19_FailureCountBounded ==
    /\ 0 <= NodeFailureCount
    /\ NodeFailureCount <= RetryThreshold + 1

\* The count at its upper bound as a later pass starts, the failures having
\* gone past the threshold without disabling cluster scaling.
C19_Witness ==
    /\ RetryThreshold = 2
    /\ NodeFailureCount = RetryThreshold + 1
    /\ ClusterScalingEnabled
    /\ cpc = "LeaderCheck"

\* ---- C20 ----

\* The iterations of the retry loop the running pass has begun: each begins
\* with GetMostRecentInstance.
Iterations == Len(CallsOf(calls, {"GetMostRecentInstance"}))

\* C20: under fair scheduling and with collaborators that return, a pass
\* runs at most RetryThreshold + 1 iterations of the retry loop; an iteration
\* that comes back to the loop test has incremented NodeFailureCount, and
\* any other ends the loop; and Start, waiting on the completion channel,
\* eventually receives and goes on to jobScaling.
C20_PassTerminates ==
    /\ [](Iterations <= RetryThreshold + 1)
    /\ [][/\ (cpc \in {"loop", "Verify"} /\ cpc' = "loop" /\ calls' # calls) =>
               NodeFailureCount' = NodeFailureCount + 1
          /\ (cpc = "loop") => cpc' \in {"loop", "Verify", "ScaleIn"}
          /\ (cpc = "Verify" /\ cpc' # cpc) => cpc' \in {"loop", "done"}
         ]_vars
    /\ (mpc = "clusterChan") ~> (mpc = "jobScaling")

\* A pass that has run RetryThreshold + 1 iterations, left the loop on its
\* bound and reached its completion signal.
C20_Witness ==
    /\ cpc = "end"
    /\ RetryThreshold = 2
    /\ Iterations = 3
    /\ NodeFailureCount = 3

====
